---- MODULE Spec2Model ----
(***************************************************************************)
(* Model of the neutron time-of-flight calculator (src/src/main.rs).       *)
(*                                                                         *)
(* Strings are sequences of one-character strings, so that trim() and      *)
(* to_lowercase() are computed character by character.  Quantities are     *)
(* IEEE-754 binary32 values (uom::si::f32), kept as sign, 24-bit           *)
(* significand and binary exponent, with round-to-nearest-even,            *)
(* subnormals, overflow to infinity and NaN.                               *)
(***************************************************************************)
EXTENDS Integers, Sequences, FiniteSets, TLC

\* ------------------------------------------------------------------------
\* Bounds of the model
\* ------------------------------------------------------------------------

\* Largest number of blanks put on each side of a unit token.
MaxPad == 1

\* Largest number of command-line values that differ from the reference
\* invocation  -l 1 m -t 1 s  (with --unit omitted).
MaxVaried == 2

\* ------------------------------------------------------------------------
\* Characters and strings
\* ------------------------------------------------------------------------

UpperChars ==
  <<"A","B","C","D","E","F","G","H","I","J","K","L","M",
    "N","O","P","Q","R","S","T","U","V","W","X","Y","Z">>

LowerChars ==
  <<"a","b","c","d","e","f","g","h","i","j","k","l","m",
    "n","o","p","q","r","s","t","u","v","w","x","y","z">>

DigitChars == <<"0","1","2","3","4","5","6","7","8","9">>

WhiteSpace == {" ", "\t", "\n"}

Max(a, b) == IF a >= b THEN a ELSE b

\* char::to_lowercase on the characters of the model's alphabet
ToLowerChar(c) ==
  IF \E i \in 1..Len(UpperChars) : UpperChars[i] = c
  THEN LowerChars[CHOOSE i \in 1..Len(UpperChars) : UpperChars[i] = c]
  ELSE c

\* str::to_lowercase
ToLowercase(s) == [i \in 1..Len(s) |-> ToLowerChar(s[i])]

\* Trim as str::trim_start would do it: the trailing white space is kept
TrimLeadingOnly(s) ==
  LET keep == {i \in 1..Len(s) : s[i] \notin WhiteSpace}
  IN  IF keep = {} THEN <<>>
      ELSE SubSeq(s, CHOOSE i \in keep : \A j \in keep : i <= j, Len(s))

\* str::trim: drop the leading and the trailing white space
Trim(s) ==
  LET keep == {i \in 1..Len(s) : s[i] \notin WhiteSpace}
  IN  IF keep = {} THEN <<>>
      ELSE LET lo == CHOOSE i \in keep : \A j \in keep : i <= j
               hi == CHOOSE i \in keep : \A j \in keep : j <= i
           IN  SubSeq(s, lo, hi)

\* unit.trim().to_lowercase()
Normalise(s) == ToLowercase(Trim(s))

IsDigit(c) == \E i \in 1..10 : DigitChars[i] = c

DigitVal(c) == (CHOOSE i \in 1..10 : DigitChars[i] = c) - 1

\* ------------------------------------------------------------------------
\* binary32 arithmetic
\* ------------------------------------------------------------------------

\* A finite value is man * 2^exp with man < 2^24, exp in -149..104 and
\* man >= 2^23 unless exp = -149 (subnormal or zero).
F32Fin(neg, man, exp) == [cls |-> "fin", neg |-> neg, man |-> man, exp |-> exp]

F32Zero(neg) == F32Fin(neg, 0, -149)

F32Inf(neg) == [cls |-> "inf", neg |-> neg, man |-> 0, exp |-> 0]

F32NaN == [cls |-> "nan", neg |-> FALSE, man |-> 0, exp |-> 0]

IsNaN(a) == a.cls = "nan"

IsInf(a) == a.cls = "inf"

IsZero(a) == a.cls = "fin" /\ a.man = 0

IsFinite(a) == a.cls = "fin"

\* f32 == f32 (PartialEq): NaN differs from everything, -0.0 equals 0.0
F32Eq(a, b) ==
  /\ ~IsNaN(a)
  /\ ~IsNaN(b)
  /\ \/ IsZero(a) /\ IsZero(b)
     \/ a = b

\* a > 0.0
F32Positive(a) == ~IsNaN(a) /\ ~IsZero(a) /\ ~a.neg

\* f32::abs
F32Abs(a) == IF IsNaN(a) THEN a ELSE [a EXCEPT !.neg = FALSE]

RECURSIVE BitLen(_)
BitLen(n) == IF n = 0 THEN 0 ELSE 1 + BitLen(n \div 2)

\* Round n * 2^e (n < 2^29) to the nearest binary32, ties to even.
F32Round(neg, n, e) ==
  IF n = 0 THEN F32Zero(neg)
  ELSE
    LET te == Max(e + BitLen(n) - 24, -149)
        k  == te - e
        q  == IF k <= 0 THEN n * 2^(-k)
              ELSE IF k > 30 THEN 0
              ELSE n \div 2^k
        r  == IF k <= 0 \/ k > 30 THEN 0 ELSE n % 2^k
        up == k >= 1 /\ k <= 30
              /\ \/ 2 * r > 2^k
                 \/ 2 * r = 2^k /\ q % 2 = 1
        m  == IF up THEN q + 1 ELSE q
        m2 == IF m = 2^24 THEN 2^23 ELSE m
        e2 == IF m = 2^24 THEN te + 1 ELSE te
    IN  IF m2 = 0 THEN F32Zero(neg)
        ELSE IF e2 > 104 THEN F32Inf(neg)
        ELSE F32Fin(neg, m2, e2)

\* The integer n (|n| <= 2^24) as f32
F32OfInt(neg, n) == F32Round(neg, n, 0)

\* a * b
F32Mul(a, b) ==
  LET neg == (a.neg /= b.neg)
  IN  IF IsNaN(a) \/ IsNaN(b) THEN F32NaN
      ELSE IF IsInf(a) \/ IsInf(b)
           THEN IF IsZero(a) \/ IsZero(b) THEN F32NaN ELSE F32Inf(neg)
      ELSE IF IsZero(a) \/ IsZero(b) THEN F32Zero(neg)
      ELSE
        \* 24 x 24 -> 48 bit product, in 12-bit limbs
        LET a1  == a.man \div 4096
            a0  == a.man % 4096
            b1  == b.man \div 4096
            b0  == b.man % 4096
            mid == a1 * b0 + a0 * b1
            los == a0 * b0 + (mid % 4096) * 4096
            lo  == los % 16777216
            hi  == a1 * b1 + mid \div 4096 + los \div 16777216
            sh  == Max(BitLen(hi) - 3, 0)
            top == hi * 2^(24 - sh) + lo \div 2^sh
            st  == IF lo % 2^sh = 0 THEN 0 ELSE 1
        IN  F32Round(neg, 2 * top + st, a.exp + b.exp + sh - 1)

\* Binary long division: steps more quotient bits of rem / d (rem < d).
RECURSIVE LongDiv(_, _, _, _)
LongDiv(rem, d, acc, steps) ==
  IF steps = 0 THEN <<acc, rem>>
  ELSE IF 2 * rem >= d THEN LongDiv(2 * rem - d, d, 2 * acc + 1, steps - 1)
  ELSE LongDiv(2 * rem, d, 2 * acc, steps - 1)

\* a / b
F32Div(a, b) ==
  LET neg == (a.neg /= b.neg)
  IN  IF IsNaN(a) \/ IsNaN(b) THEN F32NaN
      ELSE IF IsInf(a) THEN (IF IsInf(b) THEN F32NaN ELSE F32Inf(neg))
      ELSE IF IsInf(b) THEN F32Zero(neg)
      ELSE IF IsZero(b) THEN (IF IsZero(a) THEN F32NaN ELSE F32Inf(neg))
      ELSE IF IsZero(a) THEN F32Zero(neg)
      ELSE
        LET sa == 24 - BitLen(a.man)
            sb == 24 - BitLen(b.man)
            ma == a.man * 2^sa
            mb == b.man * 2^sb
            qr == LongDiv(ma % mb, mb, ma \div mb, 26)
            st == IF qr[2] = 0 THEN 0 ELSE 1
        IN  F32Round(neg, 2 * qr[1] + st, (a.exp - sa) - (b.exp - sb) - 27)

\* ------------------------------------------------------------------------
\* str::parse::<f32>  (core::num::dec2flt)
\* ------------------------------------------------------------------------

\* First index >= i of s that does not hold a digit
RECURSIVE DigitsEnd(_, _)
DigitsEnd(s, i) ==
  IF i <= Len(s) /\ IsDigit(s[i]) THEN DigitsEnd(s, i + 1) ELSE i

\* Value of the digits s[i..j-1]
RECURSIVE DigitsValue(_, _, _)
DigitsValue(s, i, j) ==
  IF j <= i THEN 0 ELSE 10 * DigitsValue(s, i, j - 1) + DigitVal(s[j - 1])

\* 10^k as f32, exact for k <= 10  (10^k = 5^k * 2^k)
Pow10FastPath(k) == F32Round(FALSE, 5^k, k)

\* ParseNumber without the check that digits follow the e of an exponent
ParseNumberBareExponent(s) ==
  LET i1      == DigitsEnd(s, 1)
      hasDot  == i1 <= Len(s) /\ s[i1] = "."
      f0      == IF hasDot THEN i1 + 1 ELSE i1
      f1      == IF hasDot THEN DigitsEnd(s, f0) ELSE i1
      hasExp  == f1 <= Len(s) /\ s[f1] \in {"e", "E"}
      x1      == f1 + 1
      x2      == IF hasExp THEN DigitsEnd(s, x1) ELSE f1
  IN  [valid    |-> (i1 - 1) + (f1 - f0) >= 1 /\ x2 = Len(s) + 1,
       mantissa |-> DigitsValue(s, 1, i1) * 10^(f1 - f0) + DigitsValue(s, f0, f1),
       exponent |-> DigitsValue(s, x1, x2) - (f1 - f0)]

\* parse_number: digits [. digits] [(e|E) [+|-] digits], all of s consumed
ParseNumber(s) ==
  LET i1      == DigitsEnd(s, 1)
      hasDot  == i1 <= Len(s) /\ s[i1] = "."
      f0      == IF hasDot THEN i1 + 1 ELSE i1
      f1      == IF hasDot THEN DigitsEnd(s, f0) ELSE i1
      nInt    == i1 - 1
      nFrac   == f1 - f0
      hasExp  == f1 <= Len(s) /\ s[f1] \in {"e", "E"}
      x0      == f1 + 1
      hasSign == hasExp /\ x0 <= Len(s) /\ s[x0] \in {"+", "-"}
      x1      == IF hasSign THEN x0 + 1 ELSE x0
      x2      == IF hasExp THEN DigitsEnd(s, x1) ELSE f1
      expAbs  == DigitsValue(s, x1, x2)
      expVal  == IF ~hasExp THEN 0
                 ELSE IF hasSign /\ s[x0] = "-" THEN 0 - expAbs ELSE expAbs
  IN  [valid    |-> /\ nInt + nFrac >= 1
                    /\ hasExp => (x2 - x1 >= 1)
                    /\ x2 = Len(s) + 1,
       mantissa |-> DigitsValue(s, 1, i1) * 10^nFrac + DigitsValue(s, f0, f1),
       exponent |-> expVal - nFrac]

\* parse_inf_nan: "nan", "inf", "infinity", in any letter case
ParseInfNan(s, negative) ==
  LET l == ToLowercase(s)
  IN  IF l = <<"n","a","n">> THEN <<F32NaN>>
      ELSE IF l = <<"i","n","f">> \/ l = <<"i","n","f","i","n","i","t","y">>
           THEN <<F32Inf(negative)>>
      ELSE <<>>

\* Number::try_fast_path (significand <= 2^24, |decimal exponent| <= 10);
\* a literal outside the fast path is not modelled
F32Unmodelled == [cls |-> "unmodelled", neg |-> FALSE, man |-> 0, exp |-> 0]

TryFastPath(num, negative) ==
  IF /\ num.mantissa <= 2^24
     /\ num.exponent <= 10
     /\ 0 - num.exponent <= 10
  THEN LET value == F32OfInt(FALSE, num.mantissa)
           scaled == IF num.exponent < 0
                     THEN F32Div(value, Pow10FastPath(0 - num.exponent))
                     ELSE F32Mul(value, Pow10FastPath(num.exponent))
       IN  [scaled EXCEPT !.neg = negative]
  ELSE F32Unmodelled

ParseOk(v) == [ok |-> TRUE, val |-> v, err |-> ""]

ParseErr(msg) == [ok |-> FALSE, val |-> F32NaN, err |-> msg]

\* <f32 as FromStr>::from_str; err is the Display text of ParseFloatError
ParseF32(s) ==
  IF Len(s) = 0 THEN ParseErr("cannot parse float from empty string")
  ELSE
    LET negative == s[1] = "-"
        rest     == IF s[1] \in {"-", "+"} THEN Tail(s) ELSE s
        num      == ParseNumber(rest)
        special  == ParseInfNan(rest, negative)
    IN  IF Len(rest) = 0 THEN ParseErr("invalid float literal")
        ELSE IF num.valid THEN ParseOk(TryFastPath(num, negative))
        ELSE IF special /= <<>> THEN ParseOk(special[1])
        ELSE ParseErr("invalid float literal")

\* ------------------------------------------------------------------------
\* uom quantities: the stored value is the magnitude in the base unit
\* ------------------------------------------------------------------------

F32One == F32Fin(FALSE, 8388608, -23)

F32Two == F32Fin(FALSE, 8388608, -22)

\* LengthCoefficient with the kilometre taken for a hundred metres
LengthCoefficientKiloHundred(unit) ==
  CASE unit = "centimeter" -> F32Fin(FALSE, 10737418, -30)
    [] unit = "meter"      -> F32Fin(FALSE, 8388608, -23)
    [] unit = "kilometer"  -> F32Fin(FALSE, 13107200, -17)

\* Unit coefficients, rounded to f32
LengthCoefficient(unit) ==
  CASE unit = "centimeter" -> F32Fin(FALSE, 10737418, -30)   \* 1.0E-2
    [] unit = "meter"      -> F32One
    [] unit = "kilometer"  -> F32Fin(FALSE, 16384000, -14)   \* 1.0E3

TimeCoefficient(unit) ==
  CASE unit = "nanosecond"  -> F32Fin(FALSE, 9007199, -53)   \* 1.0E-9
    [] unit = "microsecond" -> F32Fin(FALSE, 8796093, -43)   \* 1.0E-6
    [] unit = "millisecond" -> F32Fin(FALSE, 8589935, -33)   \* 1.0E-3
    [] unit = "second"      -> F32One

EnergyCoefficient(unit) ==
  CASE unit = "Electronvolt"     -> F32Fin(FALSE, 12396241, -86)  \* 1.602176634E-19
    [] unit = "Kiloelectronvolt" -> F32Fin(FALSE, 12105704, -76)
    [] unit = "Megaelectronvolt" -> F32Fin(FALSE, 11821977, -66)
    [] unit = "Gigaelectronvolt" -> F32Fin(FALSE, 11544899, -56)
    [] unit = "Joule"            -> F32One

\* Quantity::new::<N>(v): v * N::coefficient() / (coefficient of the base units)
ToBase(v, coefficient) == F32Div(F32Mul(v, coefficient), F32One)

\* Quantity::get::<N>(): value * (coefficient of the base units) / N::coefficient()
FromBase(v, coefficient) == F32Div(F32Mul(v, F32One), coefficient)

LengthNew(unit, v) == ToBase(v, LengthCoefficient(unit))

TimeNew(unit, v) == ToBase(v, TimeCoefficient(unit))

\* uom's abbreviation of an energy unit
Abbreviation(unit) ==
  CASE unit = "Electronvolt"     -> "eV"
    [] unit = "Kiloelectronvolt" -> "keV"
    [] unit = "Megaelectronvolt" -> "MeV"
    [] unit = "Gigaelectronvolt" -> "GeV"
    [] unit = "Joule"            -> "J"

\* ------------------------------------------------------------------------
\* Results and errors
\* ------------------------------------------------------------------------

Ok(v) == [ok |-> TRUE, val |-> <<v>>, err |-> <<>>]

Err(e) == [ok |-> FALSE, val |-> <<>>, err |-> <<e>>]

\* An error, as its Display prints it: the fixed text, and the string
\* substituted for {} when the error carries one
UnsupportedUnitError(domain, unit) ==
  CASE domain = "Length" ->
         [text |-> <<"Unsupported length unit: ">>, arg |-> <<unit>>]
    [] domain = "Time" ->
         [text |-> <<"Unsupported time unit: ">>, arg |-> <<unit>>]
    [] domain = "Energy" ->
         [text |-> <<"Unsupported energy unit: ">>, arg |-> <<unit>>]

DivideByZeroError(which) ==
  CASE which = "LengthIsZero" ->
         [text |-> <<"Length is zero, cannot divide by zero">>, arg |-> <<>>]
    [] which = "TimeIsZero" ->
         [text |-> <<"Time is zero, cannot divide by zero">>, arg |-> <<>>]

\* ------------------------------------------------------------------------
\* calculate_energy
\* ------------------------------------------------------------------------

\* Mass::new::<kilogram>(1.67493e-27_f32)
NeutronMass == F32Fin(FALSE, 8696734, -112)

\* EnergyFormula with the squares forgotten: m * length / (2 * time)
EnergyFormulaUnsquared(time, length) ==
  F32Div(F32Mul(NeutronMass, length), F32Mul(F32Two, time))

EnergyFormula(time, length) ==
  F32Div(F32Mul(NeutronMass, F32Mul(length, length)),
         F32Mul(F32Mul(F32Two, time), time))

\* calculate_energy with the two checks in the other order
calculate_energy_length_first(time, length) ==
  IF F32Eq(length, LengthNew("meter", F32Zero(FALSE)))
  THEN Err(DivideByZeroError("LengthIsZero"))
  ELSE IF F32Eq(time, TimeNew("second", F32Zero(FALSE)))
  THEN Err(DivideByZeroError("TimeIsZero"))
  ELSE Ok(F32Div(F32Mul(NeutronMass, F32Mul(length, length)),
                 F32Mul(F32Mul(F32Two, time), time)))

calculate_energy(time, length) ==
  IF F32Eq(time, TimeNew("second", F32Zero(FALSE)))
  THEN Err(DivideByZeroError("TimeIsZero"))
  ELSE IF F32Eq(length, LengthNew("meter", F32Zero(FALSE)))
  THEN Err(DivideByZeroError("LengthIsZero"))
  ELSE Ok(EnergyFormula(time, length))

\* ------------------------------------------------------------------------
\* Unit parsers
\* ------------------------------------------------------------------------

LengthAliases(unit) ==
  CASE unit = "centimeter" ->
         { <<"c","m">>,
           <<"c","e","n","t","i","m","e","t","e","r">>,
           <<"c","e","n","t","i","m","e","t","e","r","s">> }
    [] unit = "meter" ->
         { <<"m">>,
           <<"m","e","t","e","r">>,
           <<"m","e","t","e","r","s">> }
    [] unit = "kilometer" ->
         { <<"k","m">>,
           <<"k","i","l","o","m","e","t","e","r">>,
           <<"k","i","l","o","m","e","t","e","r","s">> }

TimeAliases(unit) ==
  CASE unit = "nanosecond" ->
         { <<"n","s">>,
           <<"n","a","n","o","s","e","c","o","n","d">>,
           <<"n","a","n","o","s","e","c","o","n","d","s">> }
    [] unit = "microsecond" ->
         { <<"m","u","s">>,
           <<"u","s">>,
           <<"m","i","c","r","o","s","e","c","o","n","d">>,
           <<"m","i","c","r","o","s","e","c","o","n","d","s">> }
    [] unit = "millisecond" ->
         { <<"m","s">>,
           <<"m","i","l","l","i","s","e","c","o","n","d">>,
           <<"m","i","l","l","i","s","e","c","o","n","d","s">> }
    [] unit = "second" ->
         { <<"s">>,
           <<"s","e","c","o","n","d">>,
           <<"s","e","c","o","n","d","s">> }

EnergyAliases(unit) ==
  CASE unit = "Electronvolt" ->
         { <<"e","v">>,
           <<"e","l","e","c","t","r","o","n","v","o","l","t">>,
           <<"e","l","e","c","t","r","o","n","v","o","l","t","s">> }
    [] unit = "Kiloelectronvolt" ->
         { <<"k","e","v">>,
           <<"k","i","l","o","e","l","e","c","t","r","o","n","v","o","l","t">>,
           <<"k","i","l","o","e","l","e","c","t","r","o","n","v","o","l","t","s">> }
    [] unit = "Megaelectronvolt" ->
         { <<"m","e","v">>,
           <<"m","e","g","a","e","l","e","c","t","r","o","n","v","o","l","t">>,
           <<"m","e","g","a","e","l","e","c","t","r","o","n","v","o","l","t","s">> }
    [] unit = "Gigaelectronvolt" ->
         { <<"g","e","v">>,
           <<"g","i","g","a","e","l","e","c","t","r","o","n","v","o","l","t">>,
           <<"g","i","g","a","e","l","e","c","t","r","o","n","v","o","l","t","s">> }
    [] unit = "Joule" ->
         { <<"j">>,
           <<"j","o","u","l","e">>,
           <<"j","o","u","l","e","s">> }

LengthUnits == <<"centimeter", "meter", "kilometer">>

TimeUnits == <<"nanosecond", "microsecond", "millisecond", "second">>

EnergyUnits ==
  <<"Electronvolt", "Kiloelectronvolt", "Megaelectronvolt",
    "Gigaelectronvolt", "Joule">>

\* The patterns of the match arms of each parser, in source order
LengthArms == [i \in 1..Len(LengthUnits) |-> LengthAliases(LengthUnits[i])]

TimeArms == [i \in 1..Len(TimeUnits) |-> TimeAliases(TimeUnits[i])]

EnergyArms == [i \in 1..Len(EnergyUnits) |-> EnergyAliases(EnergyUnits[i])]

\* The first match arm (in source order) whose pattern is s; 0 for `_`
MatchArm(s, arms) ==
  IF \E i \in 1..Len(arms) : s \in arms[i]
  THEN CHOOSE i \in 1..Len(arms) :
         /\ s \in arms[i]
         /\ \A j \in 1..(i - 1) : s \notin arms[j]
  ELSE 0

parse_length(quantity, unit) ==
  LET arm == MatchArm(Normalise(unit), LengthArms)
  IN  IF arm = 0 THEN Err(UnsupportedUnitError("Length", unit))
      ELSE Ok(LengthNew(LengthUnits[arm], quantity))

parse_time(quantity, unit) ==
  LET arm == MatchArm(Normalise(unit), TimeArms)
  IN  IF arm = 0 THEN Err(UnsupportedUnitError("Time", unit))
      ELSE Ok(TimeNew(TimeUnits[arm], quantity))

parse_energy_unit(unit) ==
  LET arm == MatchArm(Normalise(unit), EnergyArms)
  IN  IF arm = 0 THEN Err(UnsupportedUnitError("Energy", unit))
      ELSE Ok(EnergyUnits[arm])

\* ------------------------------------------------------------------------
\* Command lines
\* ------------------------------------------------------------------------

None == <<>>

Some(x) == <<x>>

\* Magnitude strings given as LENGTH and TIME
MagnitudeTokens ==
  { <<"1">>,
    <<"0">>,
    <<"-","0">>,
    <<"-","2">>,
    <<"3">>,
    <<"1","0","0","0">>,
    <<"3","0","0","0">>,
    <<"1","e","1","0">>,
    <<"1",".","5">>,
    <<"a","b","c">>,
    <<>>,
    <<"I","n","f">>,
    <<"1","e">>,
    <<" ","1">> }

LengthUnitWords ==
  { <<"m">>,
    <<"c","m">>,
    <<"K","m">>,
    <<"K","i","l","o","m","e","t","e","r","s">>,
    <<"f","u","r","l","o","n","g">>,
    <<"k">> }

TimeUnitWords ==
  { <<"s">>,
    <<"n","s">>,
    <<"u","s">>,
    <<"m","u","s">>,
    <<"M","s">>,
    <<"s","e","c","o","n","d","s">>,
    <<"s","e","c">> }

EnergyUnitWords ==
  { <<"e","V">>,
    <<"J">>,
    <<"k","e","V">>,
    <<"M","E","V">>,
    <<"g","e","v">>,
    <<"e","l","e","c","t","r","o","n","v","o","l","t","s">>,
    <<"e","r","g">> }

\* The words that are also given with blanks around them
PaddedWords ==
  { <<"K","m">>,
    <<"f","u","r","l","o","n","g">>,
    <<"M","s">>,
    <<"s","e","c">>,
    <<"k","e","V">>,
    <<"e","r","g">> }

Blanks(k) == [i \in 1..k |-> " "]

\* The words, and the padded words with 1..MaxPad blanks on both sides
Padded(words) ==
  words \cup {Blanks(k) \o w \o Blanks(k) :
                w \in words \cap PaddedWords, k \in 1..MaxPad}

\* The reference invocation:  -l 1 m -t 1 s
Reference ==
  [lm |-> <<"1">>, lu |-> <<"m">>, tm |-> <<"1">>, tu |-> <<"s">>, u |-> None]

Positions == {"lm", "lu", "tm", "tu", "u"}

Choices(varied, p, values) == IF p \in varied THEN values ELSE {Reference[p]}

\* The command lines that differ from the reference in the positions varied
ArgsVarying(varied) ==
  { [length_of_flight_path |-> <<lm, lu>>,
     time_of_flight        |-> <<tm, tu>>,
     unit                  |-> u] :
      lm \in Choices(varied, "lm", MagnitudeTokens),
      lu \in Choices(varied, "lu", Padded(LengthUnitWords)),
      tm \in Choices(varied, "tm", MagnitudeTokens),
      tu \in Choices(varied, "tu", Padded(TimeUnitWords)),
      u  \in Choices(varied, "u", {Some(w) : w \in Padded(EnergyUnitWords)}) }

VariedSets == {v \in SUBSET Positions : Cardinality(v) <= MaxVaried}

\* ------------------------------------------------------------------------
\* State
\* ------------------------------------------------------------------------

VARIABLES
  argv,                \* the command line, as the user typed it
  pc,                  \* the next statement of main
  cli,                 \* Cli::parse()
  input_length_value,
  input_time_value,
  input_length_unit,
  input_time_unit,
  length_quantity,
  time_quantity,
  output_energy_unit,
  energy_quantity,
  energy_unit,
  stdout,              \* lines printed with println!
  stderr,              \* lines printed with eprintln!
  exit_code            \* the exit status, once the process has ended

vars ==
  <<argv, pc, cli, input_length_value, input_time_value, input_length_unit,
    input_time_unit, length_quantity, time_quantity, output_energy_unit,
    energy_quantity, energy_unit, stdout, stderr, exit_code>>

Init ==
  /\ \E varied \in VariedSets : argv \in ArgsVarying(varied)
  /\ pc = "cli_parse"
  /\ cli = None
  /\ input_length_value = None
  /\ input_time_value = None
  /\ input_length_unit = None
  /\ input_time_unit = None
  /\ length_quantity = None
  /\ time_quantity = None
  /\ output_energy_unit = None
  /\ energy_quantity = None
  /\ energy_unit = None
  /\ stdout = <<>>
  /\ stderr = <<>>
  /\ exit_code = None

\* eprintln!("Error: {}", err); std::process::exit(1)
ExitWithError(err) ==
  /\ stderr' = Append(stderr, [text |-> <<"Error: ">> \o err.text,
                                arg  |-> err.arg])
  /\ exit_code' = Some(1)
  /\ pc' = "exited"

\* eprintln!("Error: parsing ... value: {}", err); return
ReturnWithError(what, err) ==
  /\ stderr' = Append(stderr, [text |-> <<"Error: ", what, err>>,
                                arg  |-> <<>>])
  /\ exit_code' = Some(0)
  /\ pc' = "exited"

\* CliParse with --unit defaulting to "J"
CliParseDefaultJoule ==
  /\ pc = "cli_parse"
  /\ cli' = Some([length_of_flight_path |-> argv.length_of_flight_path,
                  time_of_flight        |-> argv.time_of_flight,
                  unit |-> IF argv.unit = None THEN Some(<<"J">>)
                           ELSE argv.unit])
  /\ pc' = "length_value"
  /\ UNCHANGED <<argv, input_length_value, input_time_value, input_length_unit,
                 input_time_unit, length_quantity, time_quantity,
                 output_energy_unit, energy_quantity, energy_unit, stdout,
                 stderr, exit_code>>

\* let cli = Cli::parse();  --unit defaults to "eV"
CliParse ==
  /\ pc = "cli_parse"
  /\ cli' = Some([length_of_flight_path |-> argv.length_of_flight_path,
                  time_of_flight        |-> argv.time_of_flight,
                  unit |-> IF argv.unit = None THEN Some(<<"e","V">>)
                           ELSE argv.unit])
  /\ pc' = "length_value"
  /\ UNCHANGED <<argv, input_length_value, input_time_value, input_length_unit,
                 input_time_unit, length_quantity, time_quantity,
                 output_energy_unit, energy_quantity, energy_unit, stdout,
                 stderr, exit_code>>

\* ParseLengthValue with a length that does not parse taken for 0.0
ParseLengthValueDefaulting ==
  /\ pc = "length_value"
  /\ LET r == ParseF32(cli[1].length_of_flight_path[1])
     IN  input_length_value' = Some(IF r.ok THEN r.val ELSE F32Zero(FALSE))
  /\ pc' = "time_value"
  /\ UNCHANGED <<argv, cli, input_time_value, input_length_unit,
                 input_time_unit, length_quantity, time_quantity,
                 output_energy_unit, energy_quantity, energy_unit, stdout,
                 stderr, exit_code>>

\* let input_length_value: f32 = match cli.length_of_flight_path[0].parse()
ParseLengthValue ==
  /\ pc = "length_value"
  /\ LET r == ParseF32(cli[1].length_of_flight_path[1])
     IN  IF r.ok
         THEN /\ input_length_value' = Some(r.val)
              /\ pc' = "time_value"
              /\ UNCHANGED <<stderr, exit_code>>
         ELSE /\ ReturnWithError("parsing length value: ", r.err)
              /\ UNCHANGED input_length_value
  /\ UNCHANGED <<argv, cli, input_time_value, input_length_unit,
                 input_time_unit, length_quantity, time_quantity,
                 output_energy_unit, energy_quantity, energy_unit, stdout>>

\* let input_time_value: f32 = match cli.time_of_flight[0].parse()
ParseTimeValue ==
  /\ pc = "time_value"
  /\ LET r == ParseF32(cli[1].time_of_flight[1])
     IN  IF r.ok
         THEN /\ input_time_value' = Some(r.val)
              /\ pc' = "units"
              /\ UNCHANGED <<stderr, exit_code>>
         ELSE /\ ReturnWithError("parsing time value: ", r.err)
              /\ UNCHANGED input_time_value
  /\ UNCHANGED <<argv, cli, input_length_value, input_length_unit,
                 input_time_unit, length_quantity, time_quantity,
                 output_energy_unit, energy_quantity, energy_unit, stdout>>

\* let input_length_unit = &cli.length_of_flight_path[1].trim().to_lowercase();
\* let input_time_unit = &cli.time_of_flight[1].trim().to_lowercase();
NormaliseUnits ==
  /\ pc = "units"
  /\ input_length_unit' = Some(Normalise(cli[1].length_of_flight_path[2]))
  /\ input_time_unit' = Some(Normalise(cli[1].time_of_flight[2]))
  /\ pc' = "parse_length"
  /\ UNCHANGED <<argv, cli, input_length_value, input_time_value,
                 length_quantity, time_quantity, output_energy_unit,
                 energy_quantity, energy_unit, stdout, stderr, exit_code>>

\* let length_quantity = parse_length(...).unwrap_or_else(...)
ParseLength ==
  /\ pc = "parse_length"
  /\ LET r == parse_length(input_length_value[1], input_length_unit[1])
     IN  IF r.ok
         THEN /\ length_quantity' = r.val
              /\ pc' = "parse_time"
              /\ UNCHANGED <<stderr, exit_code>>
         ELSE /\ ExitWithError(r.err[1])
              /\ UNCHANGED length_quantity
  /\ UNCHANGED <<argv, cli, input_length_value, input_time_value,
                 input_length_unit, input_time_unit, time_quantity,
                 output_energy_unit, energy_quantity, energy_unit, stdout>>

\* let time_quantity = parse_time(...).unwrap_or_else(...)
ParseTime ==
  /\ pc = "parse_time"
  /\ LET r == parse_time(input_time_value[1], input_time_unit[1])
     IN  IF r.ok
         THEN /\ time_quantity' = r.val
              /\ pc' = "output_unit"
              /\ UNCHANGED <<stderr, exit_code>>
         ELSE /\ ExitWithError(r.err[1])
              /\ UNCHANGED time_quantity
  /\ UNCHANGED <<argv, cli, input_length_value, input_time_value,
                 input_length_unit, input_time_unit, length_quantity,
                 output_energy_unit, energy_quantity, energy_unit, stdout>>

\* let output_energy_unit = &cli.unit.unwrap().trim().to_lowercase();
OutputUnit ==
  /\ pc = "output_unit"
  /\ output_energy_unit' = Some(Normalise(cli[1].unit[1]))
  /\ pc' = "calculate"
  /\ UNCHANGED <<argv, cli, input_length_value, input_time_value,
                 input_length_unit, input_time_unit, length_quantity,
                 time_quantity, energy_quantity, energy_unit, stdout, stderr,
                 exit_code>>

\* let energy_quantity = calculate_energy(...).unwrap_or_else(...)
CalculateEnergy ==
  /\ pc = "calculate"
  /\ LET r == calculate_energy(time_quantity[1], length_quantity[1])
     IN  IF r.ok
         THEN /\ energy_quantity' = r.val
              /\ pc' = "parse_energy_unit"
              /\ UNCHANGED <<stderr, exit_code>>
         ELSE /\ ExitWithError(r.err[1])
              /\ UNCHANGED energy_quantity
  /\ UNCHANGED <<argv, cli, input_length_value, input_time_value,
                 input_length_unit, input_time_unit, length_quantity,
                 time_quantity, output_energy_unit, energy_unit, stdout>>

\* let energy_unit = parse_energy_unit(...).unwrap_or_else(...)
ParseEnergyUnit ==
  /\ pc = "parse_energy_unit"
  /\ LET r == parse_energy_unit(output_energy_unit[1])
     IN  IF r.ok
         THEN /\ energy_unit' = r.val
              /\ pc' = "print"
              /\ UNCHANGED <<stderr, exit_code>>
         ELSE /\ ExitWithError(r.err[1])
              /\ UNCHANGED energy_unit
  /\ UNCHANGED <<argv, cli, input_length_value, input_time_value,
                 input_length_unit, input_time_unit, length_quantity,
                 time_quantity, output_energy_unit, energy_quantity, stdout>>

\* energy_quantity.into_format_args(unit, Abbreviation): the value in the
\* unit and the unit's abbreviation
FormatArgs(energy, unit) ==
  [value        |-> FromBase(energy, EnergyCoefficient(unit)),
   abbreviation |-> Abbreviation(unit)]

\* match energy_unit { ... => println!("Energy = {}", ...) }, end of main
PrintEnergy ==
  /\ pc = "print"
  /\ stdout' = Append(stdout, [text |-> "Energy = ",
                               args |-> FormatArgs(energy_quantity[1],
                                                   energy_unit[1])])
  /\ exit_code' = Some(0)
  /\ pc' = "exited"
  /\ UNCHANGED <<argv, cli, input_length_value, input_time_value,
                 input_length_unit, input_time_unit, length_quantity,
                 time_quantity, output_energy_unit, energy_quantity,
                 energy_unit, stderr>>

Next ==
  \/ CliParse
  \/ ParseLengthValue
  \/ ParseTimeValue
  \/ NormaliseUnits
  \/ ParseLength
  \/ ParseTime
  \/ OutputUnit
  \/ CalculateEnergy
  \/ ParseEnergyUnit
  \/ PrintEnergy

Spec == Init /\ [][Next]_vars

\* ------------------------------------------------------------------------
\* What the command line says, read off the arguments alone
\* ------------------------------------------------------------------------

LengthMagnitude == argv.length_of_flight_path[1]

LengthUnitToken == argv.length_of_flight_path[2]

TimeMagnitude == argv.time_of_flight[1]

TimeUnitToken == argv.time_of_flight[2]

Unsigned(s) == IF s /= <<>> /\ s[1] \in {"+", "-"} THEN Tail(s) ELSE s

AllDigits(s) == Len(s) >= 1 /\ \A i \in 1..Len(s) : IsDigit(s[i])

\* digits with at most one decimal point
IsUnsignedDecimal(s) ==
  /\ \A i \in 1..Len(s) : IsDigit(s[i]) \/ s[i] = "."
  /\ \E i \in 1..Len(s) : IsDigit(s[i])
  /\ Cardinality({i \in 1..Len(s) : s[i] = "."}) <= 1

\* A decimal number: optional sign, digits, optional fractional part
IsDecimalNumber(s) == IsUnsignedDecimal(Unsigned(s))

\* A decimal number followed by e or E and a signed integer exponent
IsExponentNumber(s) ==
  LET u == Unsigned(s)
  IN  \E k \in 1..Len(u) :
        /\ u[k] \in {"e", "E"}
        /\ IsUnsignedDecimal(SubSeq(u, 1, k - 1))
        /\ AllDigits(Unsigned(SubSeq(u, k + 1, Len(u))))

\* inf, infinity or nan, in any letter case, optionally signed
IsInfOrNan(s) ==
  ToLowercase(Unsigned(s)) \in
    { <<"n","a","n">>, <<"i","n","f">>, <<"i","n","f","i","n","i","t","y">> }

\* The strings Rust's f32 parser takes
IsFloatLiteral(s) == IsDecimalNumber(s) \/ IsExponentNumber(s) \/ IsInfOrNan(s)

\* c is the lower-case letter d or its capital
SameLetter(c, d) ==
  c = d \/ \E n \in 1..Len(UpperChars) : UpperChars[n] = c /\ LowerChars[n] = d

\* raw is the alias a, in any letter case, with white space around it
MatchesAlias(raw, a) ==
  \E i \in 1..(Len(raw) + 1) :
    LET j == i + Len(a) - 1
    IN  /\ j <= Len(raw)
        /\ \A k \in 1..Len(raw) : (k < i \/ k > j) => raw[k] \in WhiteSpace
        /\ \A k \in i..j : SameLetter(raw[k], a[k - i + 1])

\* The units of a domain one of whose aliases raw matches
UnitsMatching(raw, arms) ==
  {i \in 1..Len(arms) : \E a \in arms[i] : MatchesAlias(raw, a)}

LengthUnitSupported ==
  UnitsMatching(LengthUnitToken, LengthArms) /= {}

TimeUnitSupported ==
  UnitsMatching(TimeUnitToken, TimeArms) /= {}

EnergyUnitSupported ==
  \/ argv.unit = None
  \/ UnitsMatching(argv.unit[1], EnergyArms) /= {}

LengthIsZero ==
  IsFloatLiteral(LengthMagnitude) /\ IsZero(ParseF32(LengthMagnitude).val)

TimeIsZero ==
  IsFloatLiteral(TimeMagnitude) /\ IsZero(ParseF32(TimeMagnitude).val)

\* The first step of main, in the order of its statements, that the
\* arguments make fail
FirstFault ==
  IF ~IsFloatLiteral(LengthMagnitude) THEN "length_value"
  ELSE IF ~IsFloatLiteral(TimeMagnitude) THEN "time_value"
  ELSE IF ~LengthUnitSupported THEN "length_unit"
  ELSE IF ~TimeUnitSupported THEN "time_unit"
  ELSE IF TimeIsZero THEN "time_zero"
  ELSE IF LengthIsZero THEN "length_zero"
  ELSE IF ~EnergyUnitSupported THEN "energy_unit"
  ELSE "none"

\* The first fault in the order unit parse, quantity build, formula
StagedFirstFault ==
  IF ~LengthUnitSupported THEN "length_unit"
  ELSE IF ~TimeUnitSupported THEN "time_unit"
  ELSE IF ~EnergyUnitSupported THEN "energy_unit"
  ELSE IF ~IsFloatLiteral(LengthMagnitude) THEN "length_value"
  ELSE IF ~IsFloatLiteral(TimeMagnitude) THEN "time_value"
  ELSE IF TimeIsZero THEN "time_zero"
  ELSE IF LengthIsZero THEN "length_zero"
  ELSE "none"

AnyFault == FirstFault /= "none"

\* ------------------------------------------------------------------------
\* What the run did, read off its output
\* ------------------------------------------------------------------------

Exited == pc = "exited"

\* The failure the line on standard error reports
ReportedFault(line) ==
  LET cause == line.text[2]
  IN  CASE cause = "parsing length value: "                 -> "length_value"
        [] cause = "parsing time value: "                   -> "time_value"
        [] cause = "Unsupported length unit: "              -> "length_unit"
        [] cause = "Unsupported time unit: "                -> "time_unit"
        [] cause = "Unsupported energy unit: "              -> "energy_unit"
        [] cause = "Time is zero, cannot divide by zero"    -> "time_zero"
        [] cause = "Length is zero, cannot divide by zero"  -> "length_zero"
        [] OTHER                                            -> "unknown"

Reported == IF stderr = <<>> THEN "none" ELSE ReportedFault(stderr[1])

\* The steps of main that produce a value, in order, and whether each ran
StepOrder ==
  <<"length_value", "time_value", "length_unit", "time_unit", "calculate",
    "energy_unit", "print">>

StepRan(step) ==
  CASE step = "length_value" -> input_length_value /= None
    [] step = "time_value"   -> input_time_value /= None
    [] step = "length_unit"  -> length_quantity /= None
    [] step = "time_unit"    -> time_quantity /= None
    [] step = "calculate"    -> energy_quantity /= None
    [] step = "energy_unit"  -> energy_unit /= None
    [] step = "print"        -> stdout /= <<>>

\* The step at which a fault stops the run
StepOf(fault) ==
  CASE fault \in {"time_zero", "length_zero"} -> "calculate"
    [] fault = "none"                         -> "after the last"
    [] OTHER                                  -> fault

\* Exactly the steps before the one that failed have produced their value
StoppedAt(fault) ==
  LET stop == StepOf(fault)
      at   == IF \E i \in 1..Len(StepOrder) : StepOrder[i] = stop
              THEN CHOOSE i \in 1..Len(StepOrder) : StepOrder[i] = stop
              ELSE Len(StepOrder) + 1
  IN  \A i \in 1..Len(StepOrder) : StepRan(StepOrder[i]) <=> (i < at)

IsErrorLine(line) == line.text[1] = "Error: "

\* ------------------------------------------------------------------------
\* C1
\* ------------------------------------------------------------------------

\* C1: whenever a parse or computation step fails (a magnitude that is not
\* a number, an unsupported length, time or energy unit, a zero time or a
\* zero length), the run writes one "Error: <cause>" line to standard error
\* and ends with exit code 1.
C1_FailureExitsWithOne ==
  (Exited /\ AnyFault) =>
    /\ Len(stderr) = 1
    /\ IsErrorLine(stderr[1])
    /\ exit_code = Some(1)

\* ------------------------------------------------------------------------
\* C2
\* ------------------------------------------------------------------------

\* C2 as stated: with several faulty inputs, the error reported is the first
\* in the order unit parse (length, time, energy unit), quantity build
\* (numeric parse), formula evaluation (zero checks).
C2_UnitsBeforeNumbers == Exited => Reported = StagedFirstFault

\* C2 as amended: with several faulty inputs, the error reported is the one
\* of the first failing step in the order of main's statements: numeric
\* parse of the length, numeric parse of the time, length unit, time unit,
\* zero time, zero length, energy unit; and no later step has run.
C2_StatementOrder ==
  Exited => (Reported = FirstFault /\ StoppedAt(FirstFault))

\* A run with an invalid length magnitude and an unsupported length unit
\* has reported the magnitude.
C2_Witness ==
  /\ Exited
  /\ ~IsFloatLiteral(LengthMagnitude)
  /\ ~LengthUnitSupported
  /\ Reported = "length_value"

\* ------------------------------------------------------------------------
\* C10
\* ------------------------------------------------------------------------

Success == Len(stdout) = 1 /\ stderr = <<>>

Failure ==
  /\ Len(stderr) = 1
  /\ stdout = <<>>
  /\ exit_code /= None
  /\ exit_code /= Some(0)

\* C10: every run ends either in success (one line on standard output,
\* nothing on standard error) or in failure (exactly one line on standard
\* error, nothing on standard output, a non-zero exit status), and after a
\* failure no later step has run.
C10_SuccessOrFailure ==
  Exited =>
    /\ Success \/ Failure
    /\ StoppedAt(Reported)

\* ------------------------------------------------------------------------
\* C4
\* ------------------------------------------------------------------------

\* The unit token of a domain, as the user typed it
OriginalToken(fault) ==
  CASE fault = "length_unit" -> LengthUnitToken
    [] fault = "time_unit"   -> TimeUnitToken
    [] fault = "energy_unit" -> argv.unit[1]

\* C4: a run that fails on a token matching none of a domain's aliases
\* prints "Error: Unsupported <domain> unit: " followed by the token exactly
\* as the user typed it, neither trimmed nor case-folded.
C4_ReportsOriginalToken ==
  (Exited /\ FirstFault \in {"length_unit", "time_unit", "energy_unit"}) =>
    /\ Reported = FirstFault
    /\ stderr[1].arg = Some(OriginalToken(FirstFault))

\* ------------------------------------------------------------------------
\* C3
\* ------------------------------------------------------------------------

\* calculate_energy has been called on time_quantity and length_quantity
Calculated ==
  /\ time_quantity /= None
  /\ length_quantity /= None
  /\ pc \notin {"output_unit", "calculate"}

DivideFaults == {"time_zero", "length_zero"}

\* C3: calculate_energy checks the time before the length: a zero time (in
\* any time unit, whatever the length) fails with "Time is zero"; a non-zero
\* time with a zero length (in any length unit) fails with "Length is
\* zero"; with both non-zero an energy is returned and no divide error.
C3_TimeCheckedBeforeLength ==
  Calculated =>
    LET t == time_quantity[1]
        l == length_quantity[1]
    IN  /\ IsZero(input_time_value[1]) => IsZero(t)
        /\ IsZero(input_length_value[1]) => IsZero(l)
        /\ IsZero(t) => (energy_quantity = None /\ Reported = "time_zero")
        /\ (~IsZero(t) /\ IsZero(l)) =>
             (energy_quantity = None /\ Reported = "length_zero")
        /\ (~IsZero(t) /\ ~IsZero(l)) =>
             (energy_quantity /= None /\ Reported \notin DivideFaults)

\* A zero time and a zero length together have been reported as a zero time.
C3_Witness ==
  /\ Calculated
  /\ IsZero(time_quantity[1])
  /\ IsZero(length_quantity[1])
  /\ Reported = "time_zero"

\* ------------------------------------------------------------------------
\* C5
\* ------------------------------------------------------------------------

\* The canonical symbol of each unit
LengthSymbols == << <<"c","m">>, <<"m">>, <<"k","m">> >>

TimeSymbols == << <<"n","s">>, <<"u","s">>, <<"m","s">>, <<"s">> >>

EnergySymbols ==
  << <<"e","V">>, <<"k","e","V">>, <<"M","e","V">>, <<"G","e","V">>, <<"J">> >>

\* A magnitude to try the quantity parsers with
Probe == F32Fin(FALSE, 12582912, -22)

\* raw is taken by the length parser exactly when it matches an alias, and
\* is then parsed as that unit's canonical symbol is
LengthTokenParsedByAlias(raw) ==
  LET units == UnitsMatching(raw, LengthArms)
  IN  /\ parse_length(Probe, raw).ok <=> (units /= {})
      /\ \A i \in units :
           parse_length(Probe, raw) = parse_length(Probe, LengthSymbols[i])

TimeTokenParsedByAlias(raw) ==
  LET units == UnitsMatching(raw, TimeArms)
  IN  /\ parse_time(Probe, raw).ok <=> (units /= {})
      /\ \A i \in units :
           parse_time(Probe, raw) = parse_time(Probe, TimeSymbols[i])

EnergyTokenParsedByAlias(raw) ==
  LET units == UnitsMatching(raw, EnergyArms)
  IN  /\ parse_energy_unit(raw).ok <=> (units /= {})
      /\ \A i \in units :
           parse_energy_unit(raw) = parse_energy_unit(EnergySymbols[i])

RequestedUnit == IF argv.unit = None THEN <<"e","V">> ELSE argv.unit[1]

\* C5: in each of the three domains a token is taken exactly when its
\* trimmed, case-folded form is an alias, every alias in any letter case and
\* with white space around it parses as the unit's canonical symbol does,
\* and the token normalised by main and again by the parser gives what the
\* token normalised once gives.
C5_AliasesMatchExactly ==
  /\ pc = "cli_parse" =>
       /\ LengthTokenParsedByAlias(LengthUnitToken)
       /\ TimeTokenParsedByAlias(TimeUnitToken)
       /\ EnergyTokenParsedByAlias(RequestedUnit)
       /\ \A raw \in {LengthUnitToken, TimeUnitToken, RequestedUnit} :
            Normalise(Normalise(raw)) = Normalise(raw)
  /\ (Exited /\ input_length_unit /= None) =>
       /\ length_quantity /= None <=> LengthUnitSupported
       /\ length_quantity =
            parse_length(input_length_value[1], LengthUnitToken).val
  /\ (Exited /\ (time_quantity /= None \/ Reported = "time_unit")) =>
       /\ time_quantity /= None <=> TimeUnitSupported
       /\ time_quantity = parse_time(input_time_value[1], TimeUnitToken).val
  /\ (Exited /\ (energy_unit /= None \/ Reported = "energy_unit")) =>
       /\ energy_unit /= None <=> EnergyUnitSupported
       /\ energy_unit = parse_energy_unit(RequestedUnit).val

\* A run given " Km " has built the length that "km" gives.
C5_Witness ==
  /\ Exited
  /\ LengthUnitToken = <<" ","K","m"," ">>
  /\ length_quantity /= None
  /\ length_quantity = parse_length(input_length_value[1], <<"k","m">>).val

\* ------------------------------------------------------------------------
\* C6
\* ------------------------------------------------------------------------

\* The abbreviation of the unit asked for with --unit
RequestedAbbreviation ==
  LET units == UnitsMatching(RequestedUnit, EnergyArms)
      i     == CHOOSE i \in units : TRUE
  IN  <<"eV", "keV", "MeV", "GeV", "J">>[i]

\* C6: a run whose inputs are all valid, with non-zero time and length,
\* writes exactly one line "Energy = <value> <abbreviation>" to standard
\* output, with the abbreviation of the requested unit (eV when --unit is
\* omitted), and nothing to standard error.
C6_OneEnergyLine ==
  (Exited /\ ~AnyFault) =>
    /\ Len(stdout) = 1
    /\ stdout[1].text = "Energy = "
    /\ stdout[1].args.abbreviation = RequestedAbbreviation
    /\ argv.unit = None => stdout[1].args.abbreviation = "eV"
    /\ stderr = <<>>

\* A run asked for "MEV" has printed its energy in MeV.
C6_Witness ==
  /\ Exited
  /\ argv.unit = Some(<<"M","E","V">>)
  /\ Len(stdout) = 1
  /\ stdout[1].args.abbreviation = "MeV"

\* ------------------------------------------------------------------------
\* C7
\* ------------------------------------------------------------------------

\* C7 as stated: for every non-zero (finite) time and length, of either
\* sign, calculate_energy returns an energy, the energy is strictly
\* positive, and it equals the energy of the absolute values.
C7_StrictlyPositive ==
  (/\ Calculated
   /\ IsFinite(time_quantity[1]) /\ ~IsZero(time_quantity[1])
   /\ IsFinite(length_quantity[1]) /\ ~IsZero(length_quantity[1])) =>
    /\ energy_quantity /= None
    /\ F32Positive(energy_quantity[1])
    /\ energy_quantity =
         calculate_energy(F32Abs(time_quantity[1]),
                          F32Abs(length_quantity[1])).val

\* C7 as amended: for every non-zero time and length, of either sign,
\* calculate_energy returns an energy, the energy is never negative, and it
\* is the energy of the absolute values; it is zero when the f32 quotient
\* underflows, so it is not always strictly positive.
C7_SignMakesNoDifference ==
  (Calculated /\ ~IsZero(time_quantity[1]) /\ ~IsZero(length_quantity[1])) =>
    /\ energy_quantity /= None
    /\ ~energy_quantity[1].neg
    /\ energy_quantity =
         calculate_energy(F32Abs(time_quantity[1]),
                          F32Abs(length_quantity[1])).val

\* A negative time and a negative length have given a positive energy.
C7_Witness ==
  /\ Calculated
  /\ time_quantity[1].neg /\ ~IsZero(time_quantity[1])
  /\ length_quantity[1].neg /\ ~IsZero(length_quantity[1])
  /\ energy_quantity /= None
  /\ F32Positive(energy_quantity[1])

\* ------------------------------------------------------------------------
\* C8
\* ------------------------------------------------------------------------

\* The power of ten that each unit is of its base unit
LengthExp10 == <<-2, 0, 3>>

TimeExp10 == <<-9, -6, -3, 0>>

CountOf(s) == DigitsValue(s, 1, Len(s) + 1)

\* n1 * 10^k1 = n2 * 10^k2
SameQuantity(n1, k1, n2, k2) ==
  IF k1 >= k2
  THEN n2 % 10^(k1 - k2) = 0 /\ n2 \div 10^(k1 - k2) = n1
  ELSE n1 % 10^(k2 - k1) = 0 /\ n1 \div 10^(k2 - k1) = n2

LengthUnitGiven ==
  CHOOSE i \in UnitsMatching(LengthUnitToken, LengthArms) : TRUE

TimeUnitGiven ==
  CHOOSE i \in UnitsMatching(TimeUnitToken, TimeArms) : TRUE

\* The energy is the one the run computed when the length is given as
\* magnitude m in any of the units, provided it is the same length
SameEnergyForLengthIn(units) ==
  \A m \in MagnitudeTokens, j \in units :
    (/\ AllDigits(m)
     /\ SameQuantity(CountOf(LengthMagnitude), LengthExp10[LengthUnitGiven],
                     CountOf(m), LengthExp10[j])) =>
      calculate_energy(time_quantity[1],
                       LengthNew(LengthUnits[j], ParseF32(m).val)).val
        = energy_quantity

SameEnergyForTimeIn(units) ==
  \A m \in MagnitudeTokens, j \in units :
    (/\ AllDigits(m)
     /\ SameQuantity(CountOf(TimeMagnitude), TimeExp10[TimeUnitGiven],
                     CountOf(m), TimeExp10[j])) =>
      calculate_energy(TimeNew(TimeUnits[j], ParseF32(m).val),
                       length_quantity[1]).val
        = energy_quantity

\* The run has computed an energy from whole-number magnitudes
EnergyOfCounts ==
  /\ Exited
  /\ energy_quantity /= None
  /\ AllDigits(LengthMagnitude)
  /\ AllDigits(TimeMagnitude)

\* C8 as stated: the same physical length and time expressed in different
\* units yield the same energy.
C8_SameEnergyInAnyUnit ==
  EnergyOfCounts =>
    /\ SameEnergyForLengthIn({1, 2, 3})
    /\ SameEnergyForTimeIn({1, 2, 3, 4})

\* The decimal literal of each unit's scale factor
LengthScaleLiterals ==
  << <<"0",".","0","1">>, <<"1">>, <<"1","0","0","0">> >>

TimeScaleLiterals ==
  << <<"1","e","-","9">>, <<"1","e","-","6">>, <<"1","e","-","3">>, <<"1">> >>

\* C8 as amended: the energy is m_neutron * L^2 / (2 * T^2) evaluated in
\* f32 on the magnitudes multiplied by the f32 nearest to the unit's scale
\* factor (cm 1/100, m 1, km 1000; ns 1e-9, us 1e-6, ms 1e-3, s 1); the
\* same length given in metres and in kilometres yields the same energy,
\* the other scale factors being inexact in f32.
C8_SameEnergyInMetresAndKilometres ==
  EnergyOfCounts =>
    /\ \A i \in 1..3 :
         LengthNew(LengthUnits[i], F32One) = ParseF32(LengthScaleLiterals[i]).val
    /\ \A i \in 1..4 :
         TimeNew(TimeUnits[i], F32One) = ParseF32(TimeScaleLiterals[i]).val
    /\ energy_quantity[1] =
         EnergyFormula(
           F32Mul(input_time_value[1],
                  ParseF32(TimeScaleLiterals[TimeUnitGiven]).val),
           F32Mul(input_length_value[1],
                  ParseF32(LengthScaleLiterals[LengthUnitGiven]).val))
    /\ LengthUnitGiven \in {2, 3} => SameEnergyForLengthIn({2, 3})

\* A run given 3 Km has computed an energy (3000 m is the same length).
C8_Witness ==
  /\ EnergyOfCounts
  /\ LengthMagnitude = <<"3">>
  /\ LengthUnitToken = <<"K","m">>

\* ------------------------------------------------------------------------
\* C9
\* ------------------------------------------------------------------------

NothingComputed ==
  /\ length_quantity = None
  /\ time_quantity = None
  /\ energy_quantity = None
  /\ stdout = <<>>

\* C9 as stated: a magnitude that is not a decimal number (optionally
\* signed, with an optional fractional part) makes the run fail with an
\* error carrying the raw token, nothing being built, computed or printed;
\* every decimal number is accepted.
C9_OnlyDecimalNumbers ==
  Exited =>
    /\ ~IsDecimalNumber(LengthMagnitude) =>
         /\ Reported = "length_value"
         /\ stderr[1].arg = Some(LengthMagnitude)
         /\ NothingComputed
    /\ (IsDecimalNumber(LengthMagnitude) /\ ~IsDecimalNumber(TimeMagnitude)) =>
         /\ Reported = "time_value"
         /\ stderr[1].arg = Some(TimeMagnitude)
         /\ NothingComputed
    /\ IsDecimalNumber(LengthMagnitude) => input_length_value /= None
    /\ (IsDecimalNumber(LengthMagnitude) /\ IsDecimalNumber(TimeMagnitude)) =>
         input_time_value /= None

ParseFloatErrors ==
  {"invalid float literal", "cannot parse float from empty string"}

\* The line is "Error: parsing <what> value: <the parser's message>"
ParseFailureLine(line) ==
  /\ IsErrorLine(line)
  /\ line.text[3] \in ParseFloatErrors
  /\ line.arg = None

\* C9 as amended: a magnitude that Rust's f32 parser rejects (anything but
\* an optionally signed decimal number, optionally with an exponent, or
\* inf, infinity, nan) makes the run stop with "Error: parsing length
\* value: " or "Error: parsing time value: " and the parser's message, which
\* does not carry the raw token; nothing is built, computed or printed.
\* Every decimal number is accepted, with its value, and so are exponent
\* notation and inf, infinity, nan.
C9_RejectedByTheFloatParser ==
  Exited =>
    /\ ~IsFloatLiteral(LengthMagnitude) =>
         /\ Reported = "length_value"
         /\ ParseFailureLine(stderr[1])
         /\ NothingComputed
    /\ (IsFloatLiteral(LengthMagnitude) /\ ~IsFloatLiteral(TimeMagnitude)) =>
         /\ Reported = "time_value"
         /\ ParseFailureLine(stderr[1])
         /\ NothingComputed
    /\ IsFloatLiteral(LengthMagnitude) => input_length_value /= None
    /\ (IsFloatLiteral(LengthMagnitude) /\ IsFloatLiteral(TimeMagnitude)) =>
         input_time_value /= None
    /\ AllDigits(LengthMagnitude) =>
         input_length_value = Some(F32OfInt(FALSE, CountOf(LengthMagnitude)))
    /\ IsInfOrNan(LengthMagnitude) => ~IsFinite(input_length_value[1])

\* A run given the time magnitude "abc" has reported it and built nothing.
C9_Witness ==
  /\ Exited
  /\ TimeMagnitude = <<"a","b","c">>
  /\ Reported = "time_value"
  /\ NothingComputed

====
